---- MODULE Spec2Model ----
(***************************************************************************)
(* Model of the MultiversX staking contract (staking/src/staking.rs).      *)
(*                                                                         *)
(* The contract storage (stakes, totalStaked, accRewardPerShare,           *)
(* lastRewardTime), the EGLD balances of the contract and of the accounts, *)
(* and the block timestamp are the state.  Every endpoint is one action:   *)
(* it runs the endpoint's statements in order on a working copy of the     *)
(* state and commits the copy when no statement signalled an error; when   *)
(* one did, the transaction is rolled back by the VM, the attached payment *)
(* is returned, and only the call's outcome is recorded.                   *)
(***************************************************************************)
EXTENDS Integers, Sequences, FiniteSets, TLC

\* ---------------------------------------------------------------- bounds
MaxTicks == 2           \* advances of the block timestamp in one behaviour
MaxCalls == 4           \* endpoint calls in one behaviour

\* ------------------------------------------------------------- constants
REWARD_PER_SECOND == 300

InitTime == 0

Accounts == {"X", "Y", "F"}

\* EGLD held by each account when the contract is deployed.
InitBalance == [a \in Accounts |-> IF a = "F" THEN 30000 ELSE 2000]

\* Payments attached to a stake call, and to a fundMe call.
StakePayments == {0, 1000}
FundPayments == {0, 30000}

\* Steps by which the block timestamp advances between calls.
TimeSteps == {5, 50}

VARIABLES
    now,                    \* blockchain().get_block_timestamp()
    total_staked,           \* storage "totalStaked"
    acc_reward_per_share,   \* storage "accRewardPerShare"
    last_reward_time,       \* storage "lastRewardTime"
    stakes,                 \* storage "stakes": account -> Stake, with is_empty
    balance,                \* EGLD balance of every account
    sc_balance,             \* EGLD balance of the contract
    last,                   \* outcome of the latest endpoint call
    prev,                   \* contract state right before the latest call
    calls,                  \* number of endpoint calls made
    ticks,                  \* number of timestamp advances made
    claimed,                \* per account, the time of its latest successful
                            \* claim_rewards (-1 when there was none)
    rewards_paid,           \* sum of all reward transfers made so far
    funded                  \* sum of all payments received by fundMe

vars == <<now, total_staked, acc_reward_per_share, last_reward_time, stakes,
          balance, sc_balance, last, prev, calls, ticks, claimed,
          rewards_paid, funded>>

\* ------------------------------------------------------------ the Stake type
\* Stake::default(): amount and reward_debt are zero.
StakeDefault == [amount |-> 0, reward_debt |-> 0]

\* A storage slot of the "stakes" mapper: empty until the first set().
EmptySlot == [is_empty |-> TRUE, amount |-> 0, reward_debt |-> 0]

\* The working copy of the state an endpoint runs on.  err is "none" until
\* a statement signals an error; transfers lists the EGLD transfers made by
\* the call, in order.
State ==
    [total_staked |-> total_staked,
     acc_reward_per_share |-> acc_reward_per_share,
     last_reward_time |-> last_reward_time,
     stakes |-> stakes,
     balance |-> balance,
     sc_balance |-> sc_balance]

Begin(s) == [st |-> s, err |-> "none", transfers |-> <<>>]

Fail(w, e) == IF w.err = "none" THEN [w EXCEPT !.err = e] ELSE w

\* ------------------------------------------------------------ update_pool
\* Mutant: the increment replaces the accumulator instead of adding to it.
update_pool_overwrite(w, current_time) ==
    IF w.err # "none" THEN w
    ELSE IF current_time <= w.st.last_reward_time THEN w
    ELSE IF w.st.total_staked = 0
         THEN [w EXCEPT !.st.last_reward_time = current_time]
    ELSE LET elapsed_time == current_time - w.st.last_reward_time
             reward == elapsed_time * REWARD_PER_SECOND
             acc == reward \div w.st.total_staked
         IN  [w EXCEPT !.st.acc_reward_per_share = acc,
                       !.st.last_reward_time = current_time]

\* Mutant: the quotient is rounded up instead of truncated.
update_pool_round_up(w, current_time) ==
    IF w.err # "none" THEN w
    ELSE IF current_time <= w.st.last_reward_time THEN w
    ELSE IF w.st.total_staked = 0
         THEN [w EXCEPT !.st.last_reward_time = current_time]
    ELSE LET elapsed_time == current_time - w.st.last_reward_time
             reward == elapsed_time * REWARD_PER_SECOND
             acc == w.st.acc_reward_per_share
                    + ((reward + w.st.total_staked - 1) \div w.st.total_staked)
         IN  [w EXCEPT !.st.acc_reward_per_share = acc,
                       !.st.last_reward_time = current_time]

\* Mutant: while nothing is staked the elapsed time is kept for later
\* (last_reward_time is not advanced).
update_pool_bank_gap(w, current_time) ==
    IF w.err # "none" THEN w
    ELSE IF current_time <= w.st.last_reward_time THEN w
    ELSE IF w.st.total_staked = 0 THEN w
    ELSE LET elapsed_time == current_time - w.st.last_reward_time
             reward == elapsed_time * REWARD_PER_SECOND
             acc == w.st.acc_reward_per_share + (reward \div w.st.total_staked)
         IN  [w EXCEPT !.st.acc_reward_per_share = acc,
                       !.st.last_reward_time = current_time]

\* Mutant: the accrual branch forgets to store last_reward_time.
update_pool_keep_time(w, current_time) ==
    IF w.err # "none" THEN w
    ELSE IF current_time <= w.st.last_reward_time THEN w
    ELSE IF w.st.total_staked = 0
         THEN [w EXCEPT !.st.last_reward_time = current_time]
    ELSE LET elapsed_time == current_time - w.st.last_reward_time
             reward == elapsed_time * REWARD_PER_SECOND
             acc == w.st.acc_reward_per_share + (reward \div w.st.total_staked)
         IN  [w EXCEPT !.st.acc_reward_per_share = acc]

update_pool(w, current_time) ==
    IF w.err # "none" THEN w
    ELSE IF current_time <= w.st.last_reward_time THEN w
    ELSE IF w.st.total_staked = 0
         THEN [w EXCEPT !.st.last_reward_time = current_time]
    ELSE LET elapsed_time == current_time - w.st.last_reward_time
             reward == elapsed_time * REWARD_PER_SECOND
             acc == w.st.acc_reward_per_share + (reward \div w.st.total_staked)
         IN  [w EXCEPT !.st.acc_reward_per_share = acc,
                       !.st.last_reward_time = current_time]

\* self.send().direct_egld(to, amount): fails the transaction when the
\* contract does not hold amount.
direct_egld(w, to, amount) ==
    IF w.err # "none" THEN w
    ELSE IF amount > w.st.sc_balance THEN Fail(w, "TransferFailure")
    ELSE [w EXCEPT !.st.sc_balance = @ - amount,
                   !.st.balance[to] = @ + amount,
                   !.transfers = Append(@, [to |-> to, amount |-> amount])]

\* Mutant: the transfer is made whatever the amount.
send_rewards_unguarded(w, to, amount) == direct_egld(w, to, amount)

send_rewards(w, to, amount) ==
    IF amount > 0 THEN direct_egld(w, to, amount) ELSE w

\* Mutant: the pending reward ignores what was settled before.
PendingReward_no_debt(stake, acc) == stake.amount * acc

\* &stake.amount * &acc_reward_per_share - &stake.reward_debt on BigUint.
PendingReward(stake, acc) == stake.amount * acc - stake.reward_debt

\* Mutant: the reward debt is taken before the payment is added.
Staked_debt_first(stake0, payment_amount, acc) ==
    [amount |-> stake0.amount + payment_amount,
     reward_debt |-> stake0.amount * acc]

\* stake.amount += payment; stake.reward_debt = stake.amount * acc.
Staked(stake0, payment_amount, acc) ==
    LET amount1 == stake0.amount + payment_amount
    IN  [amount |-> amount1, reward_debt |-> amount1 * acc]

\* Mutant: the claim pays and leaves the reward debt as it was.
Claimed_keep_debt(stake0, acc) == stake0

\* stake.reward_debt = stake.amount * acc, in claim_rewards.
Claimed(stake0, acc) ==
    [stake0 EXCEPT !.reward_debt = stake0.amount * acc]

\* Mutant: unstake zeroes the amount and forgets the reward debt.
Unstaked_keep_debt(stake0) == [stake0 EXCEPT !.amount = 0]

\* stake.amount = 0; stake.reward_debt = 0, in unstake.
Unstaked(stake0) == [amount |-> 0, reward_debt |-> 0]

\* Mutant: the total is overwritten by the payment instead of increased.
TotalAfterStake_set(total, payment_amount) == payment_amount

\* total_staked().update(|val| *val += payment_amount)
TotalAfterStake(total, payment_amount) == total + payment_amount

\* Mutant: unstake leaves the total as it was.
TotalAfterUnstake_keep(total, unstake_amount) == total

\* total_staked().update(|val| *val -= unstake_amount)
TotalAfterUnstake(total, unstake_amount) == total - unstake_amount

\* The record an endpoint works on: a missing slot reads as Stake::default()
\* only where the code asks is_empty() first.
StakeOf(slot) == [amount |-> slot.amount, reward_debt |-> slot.reward_debt]

\* Mutant: the mapper's key leaves out the account, so that all accounts
\* share one record.
SetStake_shared(w, caller, stake) ==
    IF w.err # "none" THEN w
    ELSE [w EXCEPT !.st.stakes =
                [a \in Accounts |->
                    [is_empty |-> FALSE, amount |-> stake.amount,
                     reward_debt |-> stake.reward_debt]]]

\* self.stakes(&caller).set(&stake): the slot is no longer empty (a Stake
\* serialises to eight bytes even when both fields are zero).
SetStake(w, caller, stake) ==
    IF w.err # "none" THEN w
    ELSE [w EXCEPT !.st.stakes[caller] =
                [is_empty |-> FALSE, amount |-> stake.amount,
                 reward_debt |-> stake.reward_debt]]

\* A payable endpoint receives the attached EGLD before its body runs.
Receive(w, caller, payment) ==
    [w EXCEPT !.st.balance[caller] = @ - payment,
              !.st.sc_balance = @ + payment]

\* Mutant: an error is reported and the writes made so far are kept.
Rollback_keep(s, w) == w

\* A signalled error aborts the transaction: the VM discards every storage
\* write and every transfer of the call, the attached payment included.
Rollback(s, w) ==
    IF w.err = "none" THEN w ELSE [w EXCEPT !.st = s, !.transfers = <<>>]

\* ------------------------------------------------------------------ stake
\* Mutant: the pool is synchronised after the deposit was added to the
\* total, so the interval before the deposit is shared with the deposit.
stake_sync_late(s, caller, payment_amount, current_time) ==
    LET w0 == Receive(Begin(s), caller, payment_amount)
        w1 == IF payment_amount > 0 THEN w0 ELSE Fail(w0, "InvalidAmount")
        wt == IF w1.err # "none" THEN w1
              ELSE [w1 EXCEPT !.st.total_staked =
                                  TotalAfterStake(@, payment_amount)]
        w2 == update_pool(wt, current_time)
        slot == w2.st.stakes[caller]
        stake0 == IF slot.is_empty THEN StakeDefault ELSE StakeOf(slot)
        acc == w2.st.acc_reward_per_share
        pending_reward == PendingReward(stake0, acc)
        w3 == IF stake0.amount > 0
              THEN IF pending_reward < 0 THEN Fail(w2, "BigUintUnderflow")
                   ELSE send_rewards(w2, caller, pending_reward)
              ELSE w2
        w4 == SetStake(w3, caller, Staked(stake0, payment_amount, acc))
    IN  Rollback(s, w4)

\* Mutant: the payment is not required to be positive.
stake_accepts_zero(s, caller, payment_amount, current_time) ==
    LET w1 == Receive(Begin(s), caller, payment_amount)
        w2 == update_pool(w1, current_time)
        slot == w2.st.stakes[caller]
        stake0 == IF slot.is_empty THEN StakeDefault ELSE StakeOf(slot)
        acc == w2.st.acc_reward_per_share
        pending_reward == PendingReward(stake0, acc)
        w3 == IF stake0.amount > 0
              THEN IF pending_reward < 0 THEN Fail(w2, "BigUintUnderflow")
                   ELSE send_rewards(w2, caller, pending_reward)
              ELSE w2
        w4 == SetStake(w3, caller, Staked(stake0, payment_amount, acc))
        w5 == IF w4.err # "none" THEN w4
              ELSE [w4 EXCEPT !.st.total_staked =
                                  TotalAfterStake(@, payment_amount)]
    IN  Rollback(s, w5)

stake(s, caller, payment_amount, current_time) ==
    LET w0 == Receive(Begin(s), caller, payment_amount)
        w1 == IF payment_amount > 0 THEN w0 ELSE Fail(w0, "InvalidAmount")
        w2 == update_pool(w1, current_time)
        slot == w2.st.stakes[caller]
        stake0 == IF slot.is_empty THEN StakeDefault ELSE StakeOf(slot)
        acc == w2.st.acc_reward_per_share
        pending_reward == PendingReward(stake0, acc)
        w3 == IF stake0.amount > 0
              THEN IF pending_reward < 0 THEN Fail(w2, "BigUintUnderflow")
                   ELSE send_rewards(w2, caller, pending_reward)
              ELSE w2
        w4 == SetStake(w3, caller, Staked(stake0, payment_amount, acc))
        w5 == IF w4.err # "none" THEN w4
              ELSE [w4 EXCEPT !.st.total_staked =
                                  TotalAfterStake(@, payment_amount)]
    IN  Rollback(s, w5)

\* ---------------------------------------------------------- claim_rewards
claim_rewards(s, caller, current_time) ==
    LET w1 == update_pool(Begin(s), current_time)
        slot == w1.st.stakes[caller]
        \* get() on a slot that was never set cannot decode a Stake
        w2 == IF slot.is_empty THEN Fail(w1, "StorageDecodeError") ELSE w1
        stake0 == StakeOf(slot)
        w3 == IF stake0.amount > 0 THEN w2 ELSE Fail(w2, "NoStake")
        acc == w1.st.acc_reward_per_share
        pending_reward == PendingReward(stake0, acc)
        w4 == IF pending_reward < 0 THEN Fail(w3, "BigUintUnderflow")
              ELSE IF pending_reward > 0 THEN w3
              ELSE Fail(w3, "NothingToClaim")
        w5 == SetStake(w4, caller, Claimed(stake0, acc))
        w6 == send_rewards(w5, caller, pending_reward)
    IN  Rollback(s, w6)

\* ---------------------------------------------------------------- unstake
unstake(s, caller, current_time) ==
    LET w1 == update_pool(Begin(s), current_time)
        slot == w1.st.stakes[caller]
        w2 == IF slot.is_empty THEN Fail(w1, "StorageDecodeError") ELSE w1
        stake0 == StakeOf(slot)
        w3 == IF stake0.amount > 0 THEN w2 ELSE Fail(w2, "NoStake")
        acc == w1.st.acc_reward_per_share
        pending_reward == PendingReward(stake0, acc)
        w4 == IF pending_reward < 0 THEN Fail(w3, "BigUintUnderflow")
              ELSE IF pending_reward > 0
                   THEN send_rewards(w3, caller, pending_reward)
                   ELSE w3
        unstake_amount == stake0.amount
        w5 == SetStake(w4, caller, Unstaked(stake0))
        w6 == IF w5.err # "none" THEN w5
              ELSE [w5 EXCEPT !.st.total_staked =
                                  TotalAfterUnstake(@, unstake_amount)]
        w7 == direct_egld(w6, caller, unstake_amount)
    IN  Rollback(s, w7)

\* ----------------------------------------------------------------- fundMe
\* Mutant: fundMe synchronises the pool like the other endpoints.
fundMe_sync(s, caller, payment) ==
    Rollback(s, update_pool(Receive(Begin(s), caller, payment), now))

fundMe(s, caller, payment) ==
    Rollback(s, Receive(Begin(s), caller, payment))

\* ------------------------------------------------------------ transitions
NoCall ==
    [op |-> "init", caller |-> "none", payment |-> 0, time |-> InitTime,
     err |-> "none", transfers |-> <<>>]

\* init(): last_reward_time is the deployment timestamp; every other
\* storage slot is empty, which reads as zero for BigUint.
Init ==
    /\ now = InitTime
    /\ last_reward_time = now
    /\ total_staked = 0
    /\ acc_reward_per_share = 0
    /\ stakes = [a \in Accounts |-> EmptySlot]
    /\ balance = InitBalance
    /\ sc_balance = 0
    /\ last = NoCall
    /\ calls = 0
    /\ ticks = 0
    /\ claimed = [a \in Accounts |-> -1]
    /\ rewards_paid = 0
    /\ funded = 0
    /\ prev = [total_staked |-> 0, acc_reward_per_share |-> 0,
               last_reward_time |-> InitTime,
               stakes |-> [a \in Accounts |-> EmptySlot],
               balance |-> InitBalance, sc_balance |-> 0]

\* The rewards among the transfers of a call: every transfer of stake and
\* claim_rewards goes through send_rewards; the last transfer of unstake is
\* the principal.
RECURSIVE SumTransfers(_)
SumTransfers(ts) ==
    IF ts = <<>> THEN 0 ELSE Head(ts).amount + SumTransfers(Tail(ts))

RewardsOf(op, ts) ==
    IF op = "unstake" /\ ts # <<>>
    THEN SumTransfers(SubSeq(ts, 1, Len(ts) - 1))
    ELSE SumTransfers(ts)

\* The transaction's outcome becomes the new state.
Commit(w, op, caller, payment) ==
    /\ calls < MaxCalls
    /\ total_staked' = w.st.total_staked
    /\ acc_reward_per_share' = w.st.acc_reward_per_share
    /\ last_reward_time' = w.st.last_reward_time
    /\ stakes' = w.st.stakes
    /\ balance' = w.st.balance
    /\ sc_balance' = w.st.sc_balance
    /\ last' = [op |-> op, caller |-> caller, payment |-> payment,
                time |-> now, err |-> w.err, transfers |-> w.transfers]
    /\ prev' = State
    /\ calls' = calls + 1
    /\ claimed' = IF op = "claim_rewards" /\ w.err = "none"
                  THEN [claimed EXCEPT ![caller] = now]
                  ELSE claimed
    /\ rewards_paid' = rewards_paid + RewardsOf(op, w.transfers)
    /\ funded' = IF op = "fundMe" /\ w.err = "none"
                 THEN funded + payment ELSE funded
    /\ UNCHANGED <<now, ticks>>

Stake ==
    \E caller \in Accounts, payment \in StakePayments :
        /\ payment <= balance[caller]
        /\ Commit(stake(State, caller, payment, now), "stake", caller, payment)

ClaimRewards ==
    \E caller \in Accounts :
        Commit(claim_rewards(State, caller, now), "claim_rewards", caller, 0)

Unstake ==
    \E caller \in Accounts :
        Commit(unstake(State, caller, now), "unstake", caller, 0)

FundMe ==
    \E caller \in Accounts, payment \in FundPayments :
        /\ payment <= balance[caller]
        /\ Commit(fundMe(State, caller, payment), "fundMe", caller, payment)

\* A later block: the timestamp advances.
Tick ==
    \E d \in TimeSteps :
        /\ ticks < MaxTicks
        /\ now' = now + d
        /\ ticks' = ticks + 1
        /\ UNCHANGED <<total_staked, acc_reward_per_share, last_reward_time,
                       stakes, balance, sc_balance, last, prev, calls,
                       claimed, rewards_paid, funded>>

Next == Stake \/ ClaimRewards \/ Unstake \/ FundMe \/ Tick

Spec == Init /\ [][Next]_vars

\* ------------------------------------------------------------ properties
RECURSIVE SumAmounts(_, _)
SumAmounts(f, S) ==
    IF S = {} THEN 0
    ELSE LET a == CHOOSE x \in S : TRUE
         IN  f[a].amount + SumAmounts(f, S \ {a})

Succeeded == last.err = "none"
Failed == last.err # "none"
Endpoints == {"stake", "claim_rewards", "unstake", "fundMe"}

\* C1: in every reachable state total_staked is the sum of amount over all
\* accounts' Stake records, whatever calls succeeded or failed before.
C1_TotalStakedIsSum == total_staked = SumAmounts(stakes, Accounts)

\* Two accounts staked, one of them withdrew: the total is the other's stake.
C1_Witness ==
    /\ last.op = "unstake" /\ Succeeded
    /\ total_staked = 1000
    /\ \E a \in Accounts : a # last.caller /\ stakes[a].amount = 1000

\* C2: a call that fails leaves the accumulator, last_reward_time,
\* total_staked, every Stake record and every balance as they were before it.
C2_FailureLeavesState ==
    (last.op \in Endpoints /\ Failed) =>
        /\ State = prev
        /\ last.transfers = <<>>

\* unstake at t=5 of 1000 staked at t=0, by a contract that holds 1000: the
\* sync makes the pending reward 1000, which the contract can pay, and then
\* the return of the principal fails.
C2_Witness ==
    /\ last.op = "unstake" /\ last.err = "TransferFailure"
    /\ last.time > last_reward_time
    /\ total_staked = 1000 /\ sc_balance = 1000
    /\ stakes[last.caller].amount = 1000
    /\ stakes[last.caller].reward_debt = 0
    /\ acc_reward_per_share = 0
    /\ (last.time - last_reward_time) * REWARD_PER_SECOND = 1500

\* C3: for every account amount * acc_reward_per_share >= reward_debt, and
\* the subtraction computing the pending reward never underflows.
C3_PendingNeverNegative ==
    /\ \A a \in Accounts :
          stakes[a].amount * acc_reward_per_share >= stakes[a].reward_debt
    /\ last.err # "BigUintUnderflow"

\* One account with a positive reward debt and a positive pending reward,
\* another that has withdrawn.
C3_Witness ==
    /\ \E a \in Accounts :
          /\ stakes[a].reward_debt > 0
          /\ stakes[a].amount * acc_reward_per_share > stakes[a].reward_debt
    /\ \E a \in Accounts : ~stakes[a].is_empty /\ stakes[a].amount = 0

\* The accumulator a call at time t must leave behind when it starts from
\* the state p: the reward of the interval since p.last_reward_time, divided
\* by the total that was staked in p.
AccAfterSync(p, t) ==
    IF t > p.last_reward_time /\ p.total_staked > 0
    THEN p.acc_reward_per_share
         + ((t - p.last_reward_time) * 300) \div p.total_staked
    ELSE p.acc_reward_per_share

Pending(f, a, acc) == f[a].amount * acc - f[a].reward_debt

Record(amount, debt) ==
    [is_empty |-> FALSE, amount |-> amount, reward_debt |-> debt]

\* C4: no step decreases acc_reward_per_share.
C4_AccNeverDecreases ==
    [][acc_reward_per_share' >= acc_reward_per_share]_vars

\* The accumulator has grown twice.
C4_Witness ==
    /\ prev.acc_reward_per_share > 0
    /\ acc_reward_per_share > prev.acc_reward_per_share

\* C5: the increment a successful stake, claim_rewards or unstake adds to
\* the accumulator is computed from the total staked before that call, and
\* right after a deposit the depositor has no pending reward.  With X
\* staking 1000 at t=0 and Y staking 1000 at t=50, the accumulator is 15
\* after Y's deposit and 22 after a call at t=100, when X's pending reward
\* is 22000 and Y's is 7000.
C5_AccrualUsesStakeBeforeCall ==
    /\ (last.op \in {"stake", "claim_rewards", "unstake"} /\ Succeeded) =>
          acc_reward_per_share = AccAfterSync(prev, last.time)
    /\ (last.op = "stake" /\ Succeeded) =>
          Pending(stakes, last.caller, acc_reward_per_share) = 0
    /\ ( /\ last.op = "stake" /\ Succeeded /\ last.caller = "Y"
         /\ last.payment = 1000 /\ last.time = 50
         /\ prev.last_reward_time = 0 /\ prev.acc_reward_per_share = 0
         /\ prev.total_staked = 1000
         /\ prev.stakes["X"] = Record(1000, 0)
         /\ prev.stakes["Y"].amount = 0 ) =>
          /\ acc_reward_per_share = 15
          /\ stakes["Y"] = Record(1000, 15000)
          /\ Pending(stakes, "X", acc_reward_per_share) = 15000
    /\ ( /\ last.op = "stake" /\ Succeeded /\ last.caller = "F"
         /\ last.time = 100
         /\ prev.last_reward_time = 50 /\ prev.acc_reward_per_share = 15
         /\ prev.total_staked = 2000
         /\ prev.stakes["X"] = Record(1000, 0)
         /\ prev.stakes["Y"] = Record(1000, 15000) ) =>
          /\ acc_reward_per_share = 22
          /\ Pending(stakes, "X", acc_reward_per_share) = 22000
          /\ Pending(stakes, "Y", acc_reward_per_share) = 7000

\* X staked 1000 at t=0, Y staked 1000 at t=50, and a third account's
\* deposit at t=100 synchronised the pool.
C5_Witness ==
    /\ last.op = "stake" /\ Succeeded /\ last.caller = "F"
    /\ last.time = 100
    /\ prev.last_reward_time = 50 /\ prev.acc_reward_per_share = 15
    /\ prev.total_staked = 2000
    /\ prev.stakes["X"] = Record(1000, 0)
    /\ prev.stakes["Y"] = Record(1000, 15000)
    /\ acc_reward_per_share = 22

Transfer(to, amount) == [to |-> to, amount |-> amount]

\* The transfers a call makes that pays the reward p and then amount.
RewardThen(to, p, rest) ==
    IF p > 0 THEN <<Transfer(to, p)>> \o rest ELSE rest

\* C6: a successful claim_rewards by an account with amount > 0 transfers
\* exactly pending = amount * acc - reward_debt, with acc synchronised to
\* the time of the call, sets reward_debt = amount * acc and leaves amount
\* and total_staked alone.  X staking 1000 at t=0 and claiming at t=100
\* receives 30000 and has reward_debt 30000.
C6_ClaimPaysPending ==
    /\ (last.op = "claim_rewards" /\ Succeeded) =>
          LET a == last.caller
              acc == AccAfterSync(prev, last.time)
              amount == prev.stakes[a].amount
              pending == Pending(prev.stakes, a, acc)
          IN  /\ amount > 0 /\ pending > 0
              /\ acc_reward_per_share = acc
              /\ last.transfers = <<Transfer(a, pending)>>
              /\ balance[a] = prev.balance[a] + pending
              /\ sc_balance = prev.sc_balance - pending
              /\ stakes[a] = Record(amount, amount * acc)
              /\ total_staked = prev.total_staked
    /\ ( /\ last.op = "claim_rewards" /\ Succeeded /\ last.caller = "X"
         /\ last.time = 100
         /\ prev.last_reward_time = 0 /\ prev.acc_reward_per_share = 0
         /\ prev.total_staked = 1000
         /\ prev.stakes["X"] = Record(1000, 0) ) =>
          /\ last.transfers = <<Transfer("X", 30000)>>
          /\ stakes["X"] = Record(1000, 30000)

\* Scenario A: X staked 1000 at t=0, the pool was funded, X claims at t=100.
C6_Witness ==
    /\ last.op = "claim_rewards" /\ Succeeded /\ last.caller = "X"
    /\ last.time = 100
    /\ prev.last_reward_time = 0 /\ prev.acc_reward_per_share = 0
    /\ prev.total_staked = 1000
    /\ prev.stakes["X"] = Record(1000, 0)
    /\ balance["X"] = prev.balance["X"] + 30000

\* A call of op by a staker whose pending reward, after the sync, is zero.
ZeroPendingCall(op) ==
    /\ last.op = op
    /\ prev.stakes[last.caller].amount > 0
    /\ Pending(prev.stakes, last.caller, AccAfterSync(prev, last.time)) = 0

\* C7: claim_rewards with a zero pending reward fails with NothingToClaim;
\* a zero pending reward inside stake or unstake is no error and makes no
\* reward transfer; and a claim_rewards by an account at the timestamp of
\* its own successful claim fails.
C7_ZeroPendingState ==
    /\ ZeroPendingCall("claim_rewards") => last.err = "NothingToClaim"
    /\ (ZeroPendingCall("stake") /\ last.payment > 0) =>
          Succeeded /\ last.transfers = <<>>
    /\ ZeroPendingCall("unstake") =>
          /\ last.err \in {"none", "TransferFailure"}
          /\ Succeeded =>
                last.transfers =
                    <<Transfer(last.caller, prev.stakes[last.caller].amount)>>
          /\ Failed =>
                prev.stakes[last.caller].amount > prev.sc_balance

C7_SecondClaimFails ==
    \A a \in Accounts :
        ( /\ claimed[a] = now
          /\ calls' = calls + 1
          /\ last'.op = "claim_rewards" /\ last'.caller = a )
        => last'.err \in {"NothingToClaim", "NoStake"}

C7_ZeroPending == []C7_ZeroPendingState /\ [][C7_SecondClaimFails]_vars

\* A claim that failed with NothingToClaim at the timestamp of the same
\* account's successful claim.
C7_Witness ==
    /\ last.op = "claim_rewards" /\ last.err = "NothingToClaim"
    /\ claimed[last.caller] = last.time
    /\ stakes[last.caller].amount > 0

\* C8 (as claimed): claim_rewards and unstake by an account whose amount is
\* 0 fail with NoStake, for a zeroed record and for an account that has no
\* record.
C8_ZeroAmountIsNoStake ==
    ( /\ last.op \in {"claim_rewards", "unstake"}
      /\ prev.stakes[last.caller].amount = 0 )
    => last.err = "NoStake"

\* C9 (as claimed): a successful unstake pays the pending reward when it is
\* positive and separately the whole amount a, zeroes the record and lowers
\* total_staked by a; and an unstake with a zero pending reward succeeds.
C9_UnstakeEffect ==
    (last.op = "unstake" /\ Succeeded) =>
        LET a == last.caller
            acc == AccAfterSync(prev, last.time)
            amount == prev.stakes[a].amount
            pending == Pending(prev.stakes, a, acc)
        IN  /\ amount > 0 /\ pending >= 0
            /\ acc_reward_per_share = acc
            /\ last.transfers =
                    RewardThen(a, pending, <<Transfer(a, amount)>>)
            /\ balance[a] = prev.balance[a] + pending + amount
            /\ sc_balance = prev.sc_balance - pending - amount
            /\ stakes[a] = Record(0, 0)
            /\ total_staked = prev.total_staked - amount

C9_UnstakeAsClaimed ==
    /\ C9_UnstakeEffect
    /\ ZeroPendingCall("unstake") => Succeeded

\* C9 (amended): as claimed, except that an unstake with a zero pending
\* reward succeeds exactly when the contract holds at least the amount, and
\* fails with TransferFailure otherwise.
C9_UnstakeAmended ==
    /\ C9_UnstakeEffect
    /\ ZeroPendingCall("unstake") =>
          /\ Succeeded <=> prev.stakes[last.caller].amount <= prev.sc_balance
          /\ Failed => last.err = "TransferFailure"
          /\ Succeeded =>
                /\ last.transfers =
                      <<Transfer(last.caller, prev.stakes[last.caller].amount)>>
                /\ balance[last.caller] =
                      prev.balance[last.caller]
                      + prev.stakes[last.caller].amount

\* An unstake that paid a reward and then the principal.
C9_Witness ==
    /\ last.op = "unstake" /\ Succeeded
    /\ Len(last.transfers) = 2
    /\ last.transfers[2].amount = prev.stakes[last.caller].amount

\* C10: stake with a payment d > 0 succeeds without a reward transfer for
\* an account with no record and for a zeroed one; for an account with
\* amount > 0 it pays the pending reward of the amount held before; in all
\* cases amount grows by d, reward_debt is the new amount times acc, and
\* total_staked grows by d.
C10_StakeEffect ==
    LET a == last.caller
        d == last.payment
        acc == AccAfterSync(prev, last.time)
        old == prev.stakes[a].amount
        pending == IF old > 0 THEN Pending(prev.stakes, a, acc) ELSE 0
    IN  /\ (last.op = "stake" /\ d > 0 /\ old = 0) =>
              Succeeded /\ last.transfers = <<>>
        /\ (last.op = "stake" /\ d > 0 /\ Failed) =>
              /\ last.err = "TransferFailure"
              /\ pending > prev.sc_balance + d
        /\ (last.op = "stake" /\ Succeeded) =>
              /\ d > 0
              /\ acc_reward_per_share = acc
              /\ last.transfers = RewardThen(a, pending, <<>>)
              /\ stakes[a] = Record(old + d, (old + d) * acc)
              /\ Pending(stakes, a, acc_reward_per_share) = 0
              /\ total_staked = prev.total_staked + d
              /\ balance[a] = prev.balance[a] - d + pending
              /\ sc_balance = prev.sc_balance + d - pending

\* A second deposit by a staker, which paid a pending reward first.
C10_Witness ==
    /\ last.op = "stake" /\ Succeeded
    /\ prev.stakes[last.caller].amount > 0
    /\ Len(last.transfers) = 1
    /\ acc_reward_per_share > 0

SyncOps == {"stake", "claim_rewards", "unstake"}

Max(x, y) == IF x >= y THEN x ELSE y

\* C11: stake with an attached payment of 0 fails with InvalidAmount and
\* leaves all state unchanged, the accumulator and last_reward_time included
\* even when the call is made later than last_reward_time.
C11_ZeroDepositRejected ==
    (last.op = "stake" /\ last.payment = 0) =>
        /\ last.err = "InvalidAmount"
        /\ last.transfers = <<>>
        /\ State = prev

\* A zero deposit made after last_reward_time while something is staked:
\* a sync at that time would have changed the accumulator.
C11_Witness ==
    /\ last.op = "stake" /\ last.payment = 0
    /\ last.time > last_reward_time
    /\ total_staked > 0
    /\ AccAfterSync(State, last.time) > acc_reward_per_share

\* C12: an interval during which total_staked is 0 adds nothing to the
\* accumulator; the deposit that ends it advances last_reward_time to its
\* own time, and the depositor has no pending reward for the gap.
C12_GapState ==
    (last.op \in SyncOps /\ Succeeded /\ prev.total_staked = 0) =>
        /\ last.op = "stake"
        /\ acc_reward_per_share = prev.acc_reward_per_share
        /\ last_reward_time = Max(prev.last_reward_time, last.time)
        /\ stakes[last.caller].amount = last.payment
        /\ stakes[last.caller].reward_debt
             = last.payment * prev.acc_reward_per_share
        /\ last.transfers = <<>>

C12_GapStep == total_staked = 0 => acc_reward_per_share' = acc_reward_per_share

C12_ZeroStakeGap == []C12_GapState /\ [][C12_GapStep]_vars

\* A deposit after a gap that followed an unstake: the accumulator is
\* positive and the gap did not move it.
C12_Witness ==
    /\ last.op = "stake" /\ Succeeded
    /\ prev.total_staked = 0
    /\ prev.acc_reward_per_share > 0
    /\ last.time > prev.last_reward_time
    /\ last_reward_time = last.time

\* C13: last_reward_time never decreases, is never later than the current
\* time, and after a successful stake, unstake or claim_rewards is the
\* larger of its earlier value and the time of the call.
C13_TimeState ==
    /\ last_reward_time <= now
    /\ (last.op \in SyncOps /\ Succeeded) =>
          last_reward_time = Max(prev.last_reward_time, last.time)

C13_TimeStep == last_reward_time' >= last_reward_time

C13_LastRewardTime == []C13_TimeState /\ [][C13_TimeStep]_vars

\* A successful claim that moved last_reward_time forward a second time.
C13_Witness ==
    /\ last.op = "claim_rewards" /\ Succeeded
    /\ prev.last_reward_time > InitTime
    /\ last_reward_time > prev.last_reward_time
    /\ last_reward_time = now

\* Times not later than the current one at which a sync may be repeated.
EarlierTimes == {InitTime, last_reward_time, prev.last_reward_time, last.time, now}

\* C14: update_pool is idempotent at a fixed timestamp: run again with the
\* same current time, or with any time not later than last_reward_time, it
\* changes nothing, whatever total_staked is; a successful call made at
\* the time of the last sync leaves the accumulator and last_reward_time.
C14_SyncIdempotent ==
    /\ LET w1 == update_pool(Begin(State), now)
       IN  \A t \in EarlierTimes : update_pool(w1, t) = w1
    /\ (last.op \in SyncOps /\ Succeeded
            /\ last.time <= prev.last_reward_time) =>
          /\ acc_reward_per_share = prev.acc_reward_per_share
          /\ last_reward_time = prev.last_reward_time

\* A second successful sync at the timestamp of one that accrued, and time
\* has passed since: the next sync accrues again.
C14_Witness ==
    /\ last.op \in SyncOps /\ Succeeded
    /\ last.time = prev.last_reward_time
    /\ prev.total_staked > 0 /\ prev.acc_reward_per_share > 0
    /\ total_staked > 0
    /\ now > last_reward_time
    /\ update_pool(Begin(State), now).st.acc_reward_per_share
         > acc_reward_per_share

\* C15: every Stake record with amount 0 has reward_debt 0, the records
\* zeroed by unstake and the default of an account without a record
\* included.
C15_ZeroAmountZeroDebt ==
    /\ \A a \in Accounts :
          stakes[a].amount = 0 => stakes[a].reward_debt = 0
    /\ StakeDefault.amount = 0 /\ StakeDefault.reward_debt = 0

\* An unstake zeroed a record whose reward debt was positive.
C15_Witness ==
    /\ last.op = "unstake" /\ Succeeded
    /\ prev.stakes[last.caller].reward_debt > 0
    /\ stakes[last.caller].amount = 0

Active(f, a) == f[a].amount > 0

\* C16: every account starts Empty; it becomes Active only by its own
\* successful stake, stays Active through its own successful stake and
\* claim_rewards, and becomes Empty only by its own successful unstake,
\* which always empties the whole amount; no call by another account and
\* no fundMe changes its record.
C16_AccountStateMachine ==
    /\ calls = 0 => \A a \in Accounts : stakes[a] = EmptySlot
    /\ \A a \in Accounts :
          LET own == last.caller = a /\ Succeeded
          IN  /\ stakes[a] # prev.stakes[a] => own /\ last.op \in SyncOps
              /\ (~Active(prev.stakes, a) /\ Active(stakes, a)) =>
                    own /\ last.op = "stake"
              /\ (Active(prev.stakes, a) /\ ~Active(stakes, a)) =>
                    own /\ last.op = "unstake"
              /\ (own /\ last.op = "stake") => Active(stakes, a)
              /\ (own /\ last.op = "claim_rewards") =>
                    /\ Active(prev.stakes, a) /\ Active(stakes, a)
                    /\ stakes[a].amount = prev.stakes[a].amount
              /\ (own /\ last.op = "unstake") =>
                    Active(prev.stakes, a) /\ stakes[a].amount = 0

\* An account that staked, withdrew and stakes again, while another
\* account stays Active with its record untouched.
C16_Witness ==
    /\ last.op = "stake" /\ Succeeded
    /\ prev.stakes[last.caller] = Record(0, 0)
    /\ Active(stakes, last.caller)
    /\ \E b \in Accounts \ {last.caller} :
          Active(stakes, b) /\ stakes[b] = prev.stakes[b]

\* C17: fundMe always succeeds and only moves the attached payment from the
\* caller to the contract: total_staked, the accumulator, last_reward_time
\* and every Stake record stay as they were (the pool is not synchronised).
C17_FundOnlyAddsBalance ==
    last.op = "fundMe" =>
        /\ Succeeded
        /\ last.transfers = <<>>
        /\ sc_balance = prev.sc_balance + last.payment
        /\ balance = [prev.balance EXCEPT ![last.caller] = @ - last.payment]
        /\ total_staked = prev.total_staked
        /\ acc_reward_per_share = prev.acc_reward_per_share
        /\ last_reward_time = prev.last_reward_time
        /\ stakes = prev.stakes

\* A fundMe with a payment, made when a sync would have moved the
\* accumulator.
C17_Witness ==
    /\ last.op = "fundMe" /\ last.payment > 0
    /\ total_staked > 0
    /\ last.time > last_reward_time
    /\ AccAfterSync(State, last.time) > acc_reward_per_share

\* The accumulator and last_reward_time after syncing the current state at
\* now + d1 and then at now + d1 + d2, and after syncing it once at
\* now + d1 + d2.
TwoSteps(d1, d2) ==
    update_pool(update_pool(Begin(State), now + d1), now + d1 + d2).st

OneStep(d1, d2) == update_pool(Begin(State), now + d1 + d2).st

\* C18: the accrual truncates and carries nothing over: a sync with
\* total_staked > 0 and 0 < elapsed * REWARD_PER_SECOND < total_staked
\* advances last_reward_time and adds 0; syncing an interval in two steps
\* never gives a larger accumulator than syncing it in one.
C18_TruncationLosesReward ==
    /\ ( /\ last.op \in SyncOps /\ Succeeded
         /\ prev.total_staked > 0
         /\ (last.time - prev.last_reward_time) * 300 > 0
         /\ (last.time - prev.last_reward_time) * 300 < prev.total_staked ) =>
          /\ acc_reward_per_share = prev.acc_reward_per_share
          /\ last_reward_time = last.time
    /\ \A d1 \in TimeSteps, d2 \in TimeSteps :
          /\ TwoSteps(d1, d2).acc_reward_per_share
                <= OneStep(d1, d2).acc_reward_per_share
          /\ TwoSteps(d1, d2).last_reward_time
                = OneStep(d1, d2).last_reward_time

\* A sync over 5 seconds with 2000 staked added nothing, and from this
\* state two steps give a strictly smaller accumulator than one.
C18_Witness ==
    /\ last.op \in SyncOps /\ Succeeded
    /\ prev.total_staked = 2000
    /\ last.time - prev.last_reward_time = 5
    /\ acc_reward_per_share = prev.acc_reward_per_share
    /\ last_reward_time = last.time
    /\ \E d1 \in TimeSteps, d2 \in TimeSteps :
          TwoSteps(d1, d2).acc_reward_per_share
            < OneStep(d1, d2).acc_reward_per_share

RECURSIVE SumPending(_, _, _)
SumPending(f, acc, S) ==
    IF S = {} THEN 0
    ELSE LET a == CHOOSE x \in S : TRUE
         IN  Pending(f, a, acc) + SumPending(f, acc, S \ {a})

\* C19: the rewards paid so far plus the rewards pending for all accounts
\* never exceed the reward stream up to the last sync,
\* REWARD_PER_SECOND * (last_reward_time - deployment time).
C19_NoOverPayment ==
    rewards_paid + SumPending(stakes, acc_reward_per_share, Accounts)
        <= 300 * (last_reward_time - InitTime)

\* A reward was paid by the settlement inside an unstake, and another
\* staker still has a reward pending.
C19_Witness ==
    /\ last.op = "unstake" /\ Succeeded /\ Len(last.transfers) = 2
    /\ rewards_paid >= last.transfers[1].amount
    /\ rewards_paid > 0
    /\ SumPending(stakes, acc_reward_per_share, Accounts) > 0

\* C20 (as claimed): the contract's balance is at least total_staked in
\* every reachable state, so an unstake with a zero pending reward never
\* fails for lack of balance.
C20_PrincipalBacked ==
    /\ sc_balance >= total_staked
    /\ ZeroPendingCall("unstake") => last.err # "TransferFailure"

\* C20 (amended): the contract's balance is total_staked plus the payments
\* received by fundMe minus the rewards paid, so it is at least
\* total_staked exactly while the rewards paid do not exceed those
\* payments; an unstake with a zero pending reward fails for lack of
\* balance only after rewards were paid beyond them.
C20_BalanceEquation ==
    /\ sc_balance = total_staked + funded - rewards_paid
    /\ sc_balance >= total_staked <=> rewards_paid <= funded
    /\ (ZeroPendingCall("unstake") /\ Failed) =>
          /\ last.err = "TransferFailure"
          /\ rewards_paid > funded
    /\ (ZeroPendingCall("unstake") /\ rewards_paid <= funded) => Succeeded

\* A claim was paid out of staked principal: nothing was funded and the
\* contract holds less than is staked.
C20_Witness ==
    /\ last.op = "claim_rewards" /\ Succeeded
    /\ funded = 0 /\ rewards_paid > 0
    /\ sc_balance < total_staked

====
